---------------------------- MODULE Spec2Model ----------------------------
(***************************************************************************)
(* A model of src/src/lib.rs: read_mail (one IMAP session: connect, login, *)
(* select, uid_search, one uid_fetch per identifier, logout) and parse     *)
(* (From / Subject / plain-text body of one raw message).                  *)
(*                                                                         *)
(* The mailparse and imap crates are external collaborators.  A raw byte   *)
(* buffer is represented by what mailparse::parse_mail makes of it: either *)
(* a failure, or a ParsedMail (headers, ctype.mimetype, subparts, body).   *)
(* A From header value is represented by what mailparse::addrparse makes   *)
(* of it: a failure, or a list of MailAddr (Single or Group).  Strings     *)
(* that the code itself transforms (the body, by trim_end) are sequences   *)
(* of characters.                                                          *)
(***************************************************************************)
EXTENDS Integers, Sequences, FiniteSets, TLC

VARIABLES
    pc,         \* position of the caller in read_mail / parse
    server,     \* the selected folder on the server: sequence of [uid, raw, seen]
    server0,    \* the folder as it was when read_mail was called (history)
    listed,     \* the identifiers in the order the server listed them in the SEARCH reply
    uids,       \* `uids` (line 43), as the sequence in which uids.iter() yields them
    messages,   \* the Vec<MyMessage> being collected (lines 46-56)
    ret,        \* what read_mail gave its caller: none, Ok(messages), Err(e), or a panic
    log,        \* protocol commands issued so far, in order (history)
    raw_data,   \* the byte buffer last handed to parse
    parsed      \* what parse returned for raw_data

vars == <<pc, server, server0, listed, uids, messages, ret, log, raw_data, parsed>>

-----------------------------------------------------------------------------
(* Bounds *)

\* longest body of a message without subparts, in characters
MaxBodyLen == 3
\* most immediate subparts of a multipart message
MaxParts == 3
\* most messages in the selected folder
MaxMsgs == 2

-----------------------------------------------------------------------------
(* Values *)

None == [some |-> FALSE]
Some(v) == [some |-> TRUE, val |-> v]

Ok(v) == [ok |-> TRUE, val |-> v]
Err(e) == [ok |-> FALSE, err |-> e]

Chars == {"h", " ", "\n"}
\* char::is_whitespace, on the characters of the model
WhiteSpace == {" ", "\n"}

SeqsUpTo(S, n) == UNION {[1..k -> S] : k \in 0..n}

\* struct MyMessage
MyMessage(f, s, b) == [from |-> f, subject |-> s, body |-> b]

-----------------------------------------------------------------------------
(* parse, lines 64-103 *)

RECURSIVE trim_end(_)
\* str::trim in its place: leading whitespace goes too
trim_both(s) ==
    LET keep == {i \in 1..Len(s) : s[i] \notin WhiteSpace}
    IN IF keep = {} THEN <<>>
       ELSE SubSeq(s, CHOOSE i \in keep : \A j \in keep : i <= j,
                      CHOOSE i \in keep : \A j \in keep : j <= i)
\* str::trim_end: drop trailing whitespace, one character at a time from the end
trim_end(s) ==
    IF s = <<>> THEN s
    ELSE IF s[Len(s)] \in WhiteSpace THEN trim_end(SubSeq(s, 1, Len(s) - 1))
    ELSE s

\* ParsedMail::get_body: the decoded content, or an error when the transfer
\* encoding / charset cannot be decoded
get_body(part) ==
    IF part.decodable THEN Ok(part.content) ELSE Err("get_body error")

RECURSIVE find_text_plain(_)
\* the last match in its place (rfind / filter().last())
find_text_plain_last(subparts) ==
    LET idx == {i \in DOMAIN subparts : subparts[i].mimetype = "text/plain"}
    IN IF idx = {} THEN None
       ELSE Some(subparts[CHOOSE i \in idx : \A j \in idx : j <= i])
\* subparts.iter().find(|&x| x.ctype.mimetype == "text/plain"), lines 90-94:
\* scan from the front, stop at the first match
find_text_plain(subparts) ==
    IF subparts = <<>> THEN None
    ELSE IF Head(subparts).mimetype = "text/plain" THEN Some(Head(subparts))
    ELSE find_text_plain(Tail(subparts))

\* info.display_name in the place of info.addr
extract_from_display(headers) ==
    IF ~headers.From.some THEN Err("no From header(1)")
    ELSE LET list == headers.From.val IN
         IF ~list.ok THEN Err("addrparse error")
         ELSE IF list.val = <<>> THEN Err("no From header(2)")
         ELSE IF Head(list.val).kind = "Single" THEN Ok(Head(list.val).display_name)
         ELSE Err("no From header(3)")
\* lines 69-75: the sender, address only
extract_from(headers) ==
    IF ~headers.From.some THEN Err("no From header(1)")
    ELSE LET list == headers.From.val IN
         IF ~list.ok THEN Err("addrparse error")
         ELSE IF list.val = <<>> THEN Err("no From header(2)")
         ELSE IF Head(list.val).kind = "Single" THEN Ok(Head(list.val).addr)
         ELSE Err("no From header(3)")

\* unwrap_or_default in the place of ok_or(..)?
extract_subject_default(headers) ==
    IF headers.Subject.some THEN Ok(headers.Subject.val) ELSE Ok("")
\* lines 78-80: the subject
extract_subject(headers) ==
    IF headers.Subject.some THEN Ok(headers.Subject.val)
    ELSE Err("no Subject header")

\* lines 87-96: the body
extract_body(parsed_mail) ==
    LET found == IF parsed_mail.subparts = <<>> THEN Some(parsed_mail)
                 ELSE find_text_plain(parsed_mail.subparts)
    IN IF ~found.some THEN Err("no text/plain parts")
       ELSE LET b == get_body(found.val)
            IN IF b.ok THEN Ok(trim_end(b.val)) ELSE b

\* fn parse(raw_data: &[u8]) -> Result<MyMessage, Box<dyn Error>>
parse(raw) ==
    IF ~raw.wellformed THEN Err("parse_mail error")
    ELSE LET from == extract_from(raw.headers) IN
         IF ~from.ok THEN from
         ELSE LET subject == extract_subject(raw.headers) IN
              IF ~subject.ok THEN subject
              ELSE LET body == extract_body(raw) IN
                   IF ~body.ok THEN body
                   ELSE Ok(MyMessage(from.val, subject.val, body.val))

-----------------------------------------------------------------------------
(* Raw messages *)

Single(name, addr) == [kind |-> "Single", display_name |-> name, addr |-> addr]
Group(name, addrs) == [kind |-> "Group", group_name |-> name, addrs |-> addrs]

\* the entries addrparse can put in a MailAddrList
MailAddrs ==
    { Single("", "user@example.com"),
      Single("Bob", "bob@example.org"),
      Group("team", <<Single("", "user@example.com")>>) }

\* the From header as headers.get_first_value("From") and addrparse see it:
\* absent, present but rejected by addrparse, or a list of entries (empty,
\* one entry, or a second entry of another kind after the first)
FromHeaders ==
    {None, Some(Err("addrparse error"))}
      \cup {Some(Ok(<<>>))}
      \cup {Some(Ok(<<a>>)) : a \in MailAddrs}
      \cup {Some(Ok(<<a, Single("Bob", "bob@example.org")>>)) :
               a \in MailAddrs \ {Single("Bob", "bob@example.org")}}
      \cup {Some(Ok(<<Single("Bob", "bob@example.org"),
                      Group("team", <<Single("", "user@example.com")>>)>>))}

\* the Subject header as headers.get_first_value("Subject") sees it
SubjectHeaders == {None, Some(""), Some("Hello")}

Headers == [From : FromHeaders, Subject : SubjectHeaders]

Leaf(mt, c, d) ==
    [mimetype |-> mt, content |-> c, decodable |-> d, subparts |-> <<>>]

\* the immediate subparts of a multipart message: text parts, and a nested
\* multipart/alternative whose own subpart is text/plain
Parts ==
    {Leaf("text/plain", c, TRUE) : c \in {<<"h">>, <<" ", "h", "\n">>}}
      \cup {Leaf("text/html", <<"h", " ">>, TRUE),
            Leaf("text/plain", <<"h">>, FALSE)}
      \cup {[mimetype |-> "multipart/alternative", content |-> <<>>,
             decodable |-> TRUE,
             subparts |-> <<Leaf("text/plain", <<"h", "\n">>, TRUE)>>]}

LeafMails ==
    {[wellformed |-> TRUE, headers |-> h, mimetype |-> mt, content |-> c,
      decodable |-> d, subparts |-> <<>>] :
        h \in Headers, mt \in {"text/plain", "text/html"},
        c \in SeqsUpTo(Chars, MaxBodyLen), d \in BOOLEAN}

MultipartMails ==
    {[wellformed |-> TRUE, headers |-> h, mimetype |-> "multipart/mixed",
      content |-> <<>>, decodable |-> TRUE, subparts |-> ps] :
        h \in Headers, ps \in SeqsUpTo(Parts, MaxParts) \ {<<>>}}

\* a buffer parse_mail rejects
Malformed == [wellformed |-> FALSE]

RawMessages == {Malformed} \cup LeafMails \cup MultipartMails

NoRaw == [wellformed |-> FALSE, none |-> TRUE]
NoResult == [ok |-> FALSE, err |-> "not called"]
NoReturn == [kind |-> "none"]

-----------------------------------------------------------------------------
(* parse on its own: every raw message of the model, one call *)

InitParse ==
    /\ pc = "parse"
    /\ raw_data \in RawMessages
    /\ parsed = NoResult
    /\ server = <<>> /\ server0 = <<>> /\ listed = <<>> /\ uids = <<>>
    /\ messages = <<>> /\ ret = NoReturn /\ log = <<>>

ParseCall ==
    /\ pc = "parse"
    /\ parsed' = parse(raw_data)
    /\ pc' = "parsed"
    /\ UNCHANGED <<server, server0, listed, uids, messages, ret, log, raw_data>>

NextParse == ParseCall

SpecParse == InitParse /\ [][NextParse]_vars

-----------------------------------------------------------------------------
(* The server *)

\* the messages a folder of the model can hold: two that parse accepts (with
\* different senders, subjects and bodies), one without a Subject header, one
\* multipart without a text/plain part
GoodA ==
    [wellformed |-> TRUE,
     headers |-> [From |-> Some(Ok(<<Single("", "user@example.com")>>)),
                  Subject |-> Some("Hello")],
     mimetype |-> "text/plain", content |-> <<"h", "\n">>, decodable |-> TRUE,
     subparts |-> <<>>]
GoodB ==
    [wellformed |-> TRUE,
     headers |-> [From |-> Some(Ok(<<Single("Bob", "bob@example.org")>>)),
                  Subject |-> Some("")],
     mimetype |-> "multipart/mixed", content |-> <<>>, decodable |-> TRUE,
     subparts |-> <<Leaf("text/html", <<"h", " ">>, TRUE),
                    Leaf("text/plain", <<" ", "h", "\n">>, TRUE)>>]
BadNoSubject ==
    [wellformed |-> TRUE,
     headers |-> [From |-> Some(Ok(<<Single("", "user@example.com")>>)),
                  Subject |-> None],
     mimetype |-> "text/plain", content |-> <<"h">>, decodable |-> TRUE,
     subparts |-> <<>>]
BadNoPlain ==
    [wellformed |-> TRUE,
     headers |-> [From |-> Some(Ok(<<Single("", "user@example.com")>>)),
                  Subject |-> Some("Hello")],
     mimetype |-> "multipart/mixed", content |-> <<>>, decodable |-> TRUE,
     subparts |-> <<Leaf("text/html", <<"h", " ">>, TRUE)>>]

FolderRaws == {GoodA, GoodB, BadNoSubject, BadNoPlain}

\* a folder: messages with the uid the server gave them and their \Seen flag
Folders ==
    {f \in SeqsUpTo([uid : 1..MaxMsgs, raw : FolderRaws, seen : BOOLEAN], MaxMsgs) :
        \A i \in DOMAIN f : f[i].uid = i}

UidsOf(folder) == {folder[i].uid : i \in DOMAIN folder}
RawOf(folder, uid) == (CHOOSE i \in DOMAIN folder : folder[i].uid = uid)

\* the orders in which the elements of a finite set can be listed
Orders(S) ==
    {o \in [1..Cardinality(S) -> S] : \A x \in S : \E i \in DOMAIN o : o[i] = x}

Cmd(c, u, item, ok) == [cmd |-> c, uid |-> u, item |-> item, ok |-> ok]

\* the fetch items that make the server set \Seen on the message (RFC 3501,
\* 6.4.5: BODY[<section>], RFC822 and RFC822.TEXT do, BODY.PEEK[<section>]
\* does not); the comment on line 49 relies on it
SetsSeen(item) == item \in {"RFC822", "RFC822.TEXT", "BODY[]"}

\* what a command does to the selected folder's contents and flags: of the
\* commands read_mail issues only a fetch can, and only by setting \Seen
ServerApply(folder, c) ==
    IF c.cmd = "UID FETCH" /\ SetsSeen(c.item)
    THEN [i \in DOMAIN folder |->
            IF folder[i].uid = c.uid THEN [folder[i] EXCEPT !.seen = TRUE]
            ELSE folder[i]]
    ELSE folder

-----------------------------------------------------------------------------
(* read_mail, lines 30-62 *)

\* "RFC822", the item the comment on line 49 warns against
FetchItemRfc822 == "RFC822"
\* the fetch item of line 51
FetchItem == "BODY.PEEK[]"

\* what the server's reply to one uid_fetch can be, as lines 50-54 see it: an
\* error (uid_fetch(..).unwrap() panics), no message (next().unwrap() panics),
\* a message without a body (body().unwrap() panics), a message with its body
FetchReplies == {"error", "empty", "no body", "body"}

ReturnOk(v) == [kind |-> "ok", val |-> v]
ReturnErr(e) == [kind |-> "err", err |-> e]
Panic(e) == [kind |-> "panic", err |-> e]

Init ==
    /\ pc = "start"
    /\ server \in Folders
    /\ server0 = server
    /\ listed = <<>>
    /\ uids = <<>>
    /\ messages = <<>>
    /\ ret = NoReturn
    /\ log = <<>>
    /\ raw_data = NoRaw
    /\ parsed = NoResult

\* one command sent on the session: logged, and applied by the server
Send(c) ==
    /\ log' = Append(log, c)
    /\ server' = ServerApply(server, c)

\* the function is left: Ok(..) / Err(..) to the caller, or a panic unwinding
Leave(r) ==
    /\ pc' = "done"
    /\ ret' = r

\* line 31: native_tls::TlsConnector::builder().build()?
BuildTls ==
    /\ pc = "start"
    /\ \E ok \in BOOLEAN :
         IF ok THEN pc' = "tls" /\ ret' = ret
         ELSE Leave(ReturnErr("tls"))
    /\ UNCHANGED <<server, server0, listed, uids, messages, log, raw_data, parsed>>

\* line 32: imap::connect(..)?
Connect ==
    /\ pc = "tls"
    /\ \E ok \in BOOLEAN :
         /\ Send(Cmd("CONNECT", 0, "", ok))
         /\ IF ok THEN pc' = "client" /\ ret' = ret
            ELSE Leave(ReturnErr("connect"))
    /\ UNCHANGED <<server0, listed, uids, messages, raw_data, parsed>>

\* lines 35-37: client.login(..).map_err(|e| e.0)?
Login ==
    /\ pc = "client"
    /\ \E ok \in BOOLEAN :
         /\ Send(Cmd("LOGIN", 0, "", ok))
         /\ IF ok THEN pc' = "session" /\ ret' = ret
            ELSE Leave(ReturnErr("login"))
    /\ UNCHANGED <<server0, listed, uids, messages, raw_data, parsed>>

\* a select whose failure is ignored (let _ = ..) in the place of ..?
SelectIgnoringFailure ==
    /\ pc = "session"
    /\ \E ok \in BOOLEAN :
         /\ Send(Cmd("SELECT", 0, "", ok))
         /\ pc' = "selected" /\ ret' = ret
    /\ UNCHANGED <<server0, listed, uids, messages, raw_data, parsed>>
\* line 40: imap_session.select(mailbox.selection)?
Select ==
    /\ pc = "session"
    /\ \E ok \in BOOLEAN :
         /\ Send(Cmd("SELECT", 0, "", ok))
         /\ IF ok THEN pc' = "selected" /\ ret' = ret
            ELSE Leave(ReturnErr("select"))
    /\ UNCHANGED <<server0, listed, uids, messages, raw_data, parsed>>

\* a search that reports an empty folder as an error
UidSearchEmptyIsError ==
    /\ pc = "selected"
    /\ \E ok \in BOOLEAN :
         /\ Send(Cmd("UID SEARCH", 0, "ALL", ok))
         /\ IF ok /\ server # <<>>
            THEN /\ \E l \in Orders(UidsOf(server)), o \in Orders(UidsOf(server)) :
                       listed' = l /\ uids' = o
                 /\ pc' = "map" /\ ret' = ret
            ELSE /\ Leave(ReturnErr("uid_search"))
                 /\ UNCHANGED <<listed, uids>>
    /\ UNCHANGED <<server0, messages, raw_data, parsed>>
\* line 43: let uids = imap_session.uid_search("ALL")?
\* The server lists every identifier of the folder, in an order of its own
\* (listed).  imap's uid_search returns them as a HashSet<Uid>, so uids.iter()
\* (line 47) yields them in the hasher's order, which is any order.
UidSearch ==
    /\ pc = "selected"
    /\ \E ok \in BOOLEAN :
         /\ Send(Cmd("UID SEARCH", 0, "ALL", ok))
         /\ IF ok
            THEN /\ \E l \in Orders(UidsOf(server)), o \in Orders(UidsOf(server)) :
                       listed' = l /\ uids' = o
                 /\ pc' = "map" /\ ret' = ret
            ELSE /\ Leave(ReturnErr("uid_search"))
                 /\ UNCHANGED <<listed, uids>>
    /\ UNCHANGED <<server0, messages, raw_data, parsed>>

\* a collect that puts each new message in front
CollectInFront(msgs, m) == <<m>> \o msgs
\* lines 46-56: collect::<Vec<MyMessage>>() appends in iteration order
Collect(msgs, m) == Append(msgs, m)

\* lines 48-55: one turn of the map closure, driven by collect: fetch the next
\* identifier of uids, take the first message of the reply, parse its body;
\* each unwrap panics on failure
FetchOne ==
    /\ pc = "map"
    /\ Len(messages) < Len(uids)
    /\ LET uid == uids[Len(messages) + 1] IN
       \E reply \in FetchReplies :
         /\ Send(Cmd("UID FETCH", uid, FetchItem, reply # "error"))
         /\ IF reply = "body"
            THEN /\ raw_data' = server[RawOf(server, uid)].raw
                 /\ parsed' = parse(raw_data')
                 /\ IF parsed'.ok
                    THEN /\ messages' = Collect(messages, parsed'.val)
                         /\ pc' = pc /\ ret' = ret
                    ELSE /\ Leave(Panic(parsed'.err))
                         /\ messages' = messages
            ELSE /\ Leave(Panic(reply))
                 /\ UNCHANGED <<messages, raw_data, parsed>>
    /\ UNCHANGED <<server0, listed, uids>>

\* lines 59-61: imap_session.logout()?; Ok(messages)
Logout ==
    /\ pc = "map"
    /\ Len(messages) = Len(uids)
    /\ \E ok \in BOOLEAN :
         /\ Send(Cmd("LOGOUT", 0, "", ok))
         /\ Leave(IF ok THEN ReturnOk(messages) ELSE ReturnErr("logout"))
    /\ UNCHANGED <<server0, listed, uids, messages, raw_data, parsed>>

Next ==
    \/ BuildTls
    \/ Connect
    \/ Login
    \/ Select
    \/ UidSearch
    \/ FetchOne
    \/ Logout

Spec == Init /\ [][Next]_vars

-----------------------------------------------------------------------------
(* Claims about parse (checked under SpecParse) *)

ParseDone == pc = "parsed"

FromErrors ==
    {"no From header(1)", "addrparse error", "no From header(2)", "no From header(3)"}

\* the From header yields a list whose first entry is a single address
FromValid(raw) ==
    /\ raw.wellformed
    /\ raw.headers.From.some
    /\ raw.headers.From.val.ok
    /\ raw.headers.From.val.val # <<>>
    /\ raw.headers.From.val.val[1].kind = "Single"

HeadersValid(raw) == FromValid(raw) /\ raw.headers.Subject.some

NoSubject(raw) == raw.wellformed /\ ~raw.headers.Subject.some

\* b is c without its trailing whitespace: a prefix of c, followed in c by
\* whitespace only, and not itself ending in whitespace
IsTrimEndOf(b, c) ==
    /\ Len(b) <= Len(c)
    /\ SubSeq(c, 1, Len(b)) = b
    /\ \A i \in (Len(b) + 1)..Len(c) : c[i] \in WhiteSpace
    /\ b = <<>> \/ b[Len(b)] \notin WhiteSpace

PlainIdx(ps) == {i \in DOMAIN ps : ps[i].mimetype = "text/plain"}

\* C5 as stated: every raw message without a Subject header makes parse fail
\* with the "no Subject header" error, whatever its From header and body are.
C5_Original ==
    (ParseDone /\ NoSubject(raw_data)) => parsed = Err("no Subject header")

\* C5 as amended: a raw message without a Subject header never yields a
\* Message; the error is "no Subject header" exactly when the sender
\* extraction, which runs first, succeeded, and is that step's From error
\* otherwise.
C5_NoSubjectFails ==
    (ParseDone /\ NoSubject(raw_data)) =>
        /\ ~parsed.ok
        /\ IF FromValid(raw_data) THEN parsed.err = "no Subject header"
           ELSE parsed.err \in FromErrors

C5_Witness ==
    /\ ParseDone /\ NoSubject(raw_data) /\ FromValid(raw_data)
    /\ raw_data.subparts # <<>>
    /\ parsed = Err("no Subject header")

\* C6: with valid From and Subject and a non-empty list of immediate
\* subparts, the body comes from the lowest-index immediate subpart whose
\* mimetype is exactly text/plain (no Message when that part cannot be
\* decoded); subparts of subparts are never used, and with no text/plain
\* immediate subpart parse fails with "no text/plain parts".
C6_FirstTextPlain ==
    (ParseDone /\ HeadersValid(raw_data) /\ raw_data.subparts # <<>>) =>
        LET ps == raw_data.subparts
            idx == PlainIdx(ps)
        IN IF idx = {} THEN parsed = Err("no text/plain parts")
           ELSE LET first == ps[CHOOSE i \in idx : \A j \in idx : i <= j]
                IN IF first.decodable
                   THEN parsed.ok /\ IsTrimEndOf(parsed.val.body, first.content)
                   ELSE parsed = Err("get_body error")

C6_Witness ==
    /\ ParseDone /\ HeadersValid(raw_data)
    /\ Len(raw_data.subparts) = Len(<<"text/html", "text/plain", "text/plain">>)
    /\ raw_data.subparts[1].mimetype = "text/html"
    /\ raw_data.subparts[2] = Leaf("text/plain", <<" ", "h", "\n">>, TRUE)
    /\ raw_data.subparts[3] = Leaf("text/plain", <<"h">>, TRUE)
    /\ parsed.ok /\ parsed.val.body = <<" ", "h">>

\* C7: when the From header parses to a list whose first entry is a single
\* address, the sender of the Message is that entry's address (not its display
\* name) and no From error is raised; when the header is absent, is rejected
\* by addrparse, parses to an empty list, or starts with a group, parse fails
\* with the matching From error and yields no Message.
C7_Sender ==
    (ParseDone /\ raw_data.wellformed) =>
        LET f == raw_data.headers.From IN
        IF ~f.some THEN parsed = Err("no From header(1)")
        ELSE IF ~f.val.ok THEN parsed = Err("addrparse error")
        ELSE IF f.val.val = <<>> THEN parsed = Err("no From header(2)")
        ELSE IF f.val.val[1].kind = "Group" THEN parsed = Err("no From header(3)")
        ELSE /\ parsed.ok => parsed.val.from = f.val.val[1].addr
             /\ ~parsed.ok => parsed.err \notin FromErrors

C7_Witness ==
    /\ ParseDone /\ raw_data.wellformed
    /\ raw_data.headers.From =
         Some(Ok(<<Single("Bob", "bob@example.org"),
                   Group("team", <<Single("", "user@example.com")>>)>>))
    /\ parsed.ok /\ parsed.val.from = "bob@example.org"

\* C8: with valid From and Subject and no subparts, the body is the message's
\* own decoded content, whatever its mimetype, without its trailing whitespace
\* and with its leading whitespace kept.
C8_LeafBody ==
    (ParseDone /\ HeadersValid(raw_data) /\ raw_data.subparts = <<>>) =>
        IF raw_data.decodable
        THEN parsed.ok /\ IsTrimEndOf(parsed.val.body, raw_data.content)
        ELSE parsed = Err("get_body error")

C8_Witness ==
    /\ ParseDone /\ HeadersValid(raw_data) /\ raw_data.subparts = <<>>
    /\ raw_data.mimetype = "text/html"
    /\ raw_data.content = <<" ", "h", "\n">>
    /\ parsed.ok /\ parsed.val.body = <<" ", "h">>

-----------------------------------------------------------------------------
(* Claims about read_mail (checked under Spec) *)

Done == pc = "done"

Issued(c) == \E i \in DOMAIN log : log[i].cmd = c

\* the search succeeded: the run reached the per-identifier fetch phase
SearchOk == \E i \in DOMAIN log : log[i].cmd = "UID SEARCH" /\ log[i].ok

SetupCmds == {"CONNECT", "LOGIN", "SELECT", "UID SEARCH"}

Order == <<"CONNECT", "LOGIN", "SELECT", "UID SEARCH", "UID FETCH", "LOGOUT">>

Rank(c) == CHOOSE i \in DOMAIN Order : Order[i] = c

ErrorOf(c) ==
    CASE c = "CONNECT" -> "connect"
      [] c = "LOGIN" -> "login"
      [] c = "SELECT" -> "select"
      [] c = "UID SEARCH" -> "uid_search"

\* the Message parse makes of the message that had identifier uid when
\* read_mail was called
MessageOf(uid) == parse(server0[RawOf(server0, uid)].raw).val

\* C1: at every point of every run, successful or not, the folder holds the
\* same messages with the same read/unread flags as when read_mail was called.
C1_FlagsUnchanged ==
    /\ Len(server) = Len(server0)
    /\ \A i \in DOMAIN server :
         /\ server[i].seen = server0[i].seen
         /\ server[i].uid = server0[i].uid
         /\ server[i].raw = server0[i].raw

C1_Witness ==
    /\ Done /\ ret.kind = "ok"
    /\ \E i \in DOMAIN log : log[i].cmd = "UID FETCH" /\ log[i].ok
    /\ \E i \in DOMAIN server : ~server0[i].seen /\ ~server[i].seen

\* C2 as stated: once parse has rejected a message fetched from the folder,
\* read_mail ends by giving its caller an error (an Err of its Result), and
\* no list of Messages.
C2_SingleError ==
    (Done /\ parsed # NoResult /\ ~parsed.ok) => ret.kind = "err"

\* C3 as stated: a run that got past the search has issued LOGOUT by the
\* time control is back with the caller, whatever the fetches and parses did.
C3_LogoutBeforeReturn ==
    (Done /\ SearchOk) => Issued("LOGOUT")

\* C4 as stated: when the search succeeded and listed no identifier,
\* read_mail fetches nothing and returns Ok of an empty sequence.
C4_Original ==
    (Done /\ SearchOk /\ listed = <<>>) =>
        ~Issued("UID FETCH") /\ ret = ReturnOk(<<>>)

\* C4 as amended: when the search succeeded and listed no identifier,
\* read_mail fetches nothing, goes straight to logout, and returns Ok of an
\* empty sequence when the logout succeeds; a failed logout is returned as
\* its error.
C4_EmptyFolder ==
    (Done /\ SearchOk /\ listed = <<>>) =>
        /\ ~Issued("UID FETCH")
        /\ log[Len(log)].cmd = "LOGOUT"
        /\ IF log[Len(log)].ok THEN ret = ReturnOk(<<>>)
           ELSE ret = ReturnErr("logout")

C4_Witness ==
    /\ Done /\ SearchOk /\ listed = <<>>
    /\ ret = ReturnOk(<<>>)

\* C9 as stated: a successful return holds one Message per listed identifier,
\* the i-th being the parse of the message of the i-th identifier in the
\* order the server listed them.
C9_Original ==
    (Done /\ ret.kind = "ok") =>
        /\ Len(ret.val) = Len(listed)
        /\ \A i \in DOMAIN ret.val : ret.val[i] = MessageOf(listed[i])

\* C9 as amended: a successful return holds one Message per listed
\* identifier, each the parse of that identifier's message, in the order in
\* which uids.iter() yielded the identifiers: some order of the listed
\* identifiers, not necessarily the server's.
C9_IterationOrder ==
    (Done /\ ret.kind = "ok") =>
        /\ Len(ret.val) = Len(listed)
        /\ Len(uids) = Len(listed)
        /\ \A i \in DOMAIN listed : \E j \in DOMAIN uids : uids[j] = listed[i]
        /\ \A i \in DOMAIN ret.val : ret.val[i] = MessageOf(uids[i])

C9_Witness ==
    /\ Done /\ ret.kind = "ok"
    /\ Len(ret.val) > 1
    /\ ret.val[1] # ret.val[Len(ret.val)]
    /\ uids # listed

\* C10: the commands of a run are issued in the order connect, login,
\* select, search, fetches, logout: each of the first four at most once and
\* only after all those before it, every fetch for another identifier, logout
\* at most once and last; a failed connect, login, select or search is the
\* last command of the run and its error is what the caller gets.
C10_Sequence ==
    /\ \A i \in DOMAIN log :
         log[i].cmd \in SetupCmds => Rank(log[i].cmd) = i
    /\ \A i \in DOMAIN log : \A j \in DOMAIN log :
         i < j =>
           \/ Rank(log[i].cmd) < Rank(log[j].cmd)
           \/ /\ log[i].cmd = "UID FETCH" /\ log[j].cmd = "UID FETCH"
              /\ log[i].uid # log[j].uid
    /\ \A i \in DOMAIN log :
         (log[i].cmd \in SetupCmds /\ ~log[i].ok) =>
            /\ i = Len(log)
            /\ Done /\ ret = ReturnErr(ErrorOf(log[i].cmd))

C10_Witness ==
    /\ Done /\ ret.kind = "ok"
    /\ {log[i].cmd : i \in DOMAIN log} = {Order[i] : i \in DOMAIN Order}
    /\ Len(log) > Len(Order)

=============================================================================
